---- MODULE Spec2Model ----
(***************************************************************************)
(* Model of src/src/backend.js: the vacation request lifecycle            *)
(* (apiCreateRequest, apiProcessRequest, apiCancelRequest,                *)
(* apiEditRequest) over the Solicitudes and Empleados sheets, the script  *)
(* lock and the calendar.                                                  *)
(*                                                                         *)
(* Sheet row r (r >= 2, row 1 is the header) is solicitudes[r - 1].        *)
(* A Date is an integer number of hours; a calendar day d starts at hour   *)
(* d * 24, and day d has weekday d % 7 with 0 = Sunday, as Date.getDay().  *)
(***************************************************************************)
EXTENDS Integers, Sequences, FiniteSets, TLC

\* ------------------------------------------------------------------------
\* Bounds of the model
\* ------------------------------------------------------------------------
MaxRows == 3        \* data rows the Solicitudes sheet may hold
MaxOps == 3         \* API invocations in one behaviour
MaxAhead == 1       \* input dates range over Today - 1 .. Today + MaxAhead
MaxDay == 12        \* days 0 .. MaxDay given to countBusinessDays_ on its own

\* ------------------------------------------------------------------------
\* Configuration and fixed sheets
\* ------------------------------------------------------------------------
ENFORCE_BALANCE_BEFORE_EVENT == TRUE
ENFORCE_MIN_ADVANCE_DAYS == FALSE
MIN_ADVANCE_DAYS == 0

\* The day on which the behaviour runs: a Thursday (4 % 7 = 4), so that
\* Today and Today + 1 are business days and Today + 2 is a Saturday.
Today == 4

Procs == {1, 2}
NoProc == 0

PENDIENTE == "Pendiente"
NECESITA_REVISION == "Necesita Revision"
APROBADO == "Aprobado"
APROBADO_EXCEPCION == "Aprobado (Excepcion)"
RECHAZADO == "Rechazado"
CANCELADO == "Cancelado"

\* Empleados sheet, rows 2..: name, email, team, SaldoHR (columns 1-4).
\* Column 5 (used days) is the variable usados.
Empleados ==
  << [name |-> "Ana", email |-> "ana@x", team |-> "T1", saldoHR |-> 1],
     [name |-> "Bob", email |-> "bob@x", team |-> "T1", saldoHR |-> 2] >>

\* 'Notificar Solicitudes' sheet, as getManagerEmails_ returns it.
Managers == << "bob@x" >>

\* Session.getActiveUser().getEmail() of the callers.
Users == {"ana@x", "bob@x"}

\* 'YYYY-MM-DD' start dates the client sends, by day number, and the end
\* dates it sends with a start date: the day before, the same day, the next.
Days == (Today - 1) .. (Today + MaxAhead)
EndDays(s) == (s - 1) .. (s + 1)

\* Decisions the client sends to apiProcessRequest.
Decisions == {APROBADO, APROBADO_EXCEPCION, RECHAZADO}

NoNote == << "", "", "" >>
NoDias == -1        \* an empty cell in column 7
NoEvent == 0        \* an empty cell in column 8
NoDate == -1        \* an empty cell in column 4 or 5
NoTs == 0           \* an empty cell in column 1

VARIABLES
  solicitudes,   \* Seq of rows: ts, email, empleado, ini, fin, estado, dias, eventId, note
  usados,        \* Empleados column 5, by Empleados row index
  calendar,      \* live calendar events: records id, title, s, e
  nextEventId,   \* the id the calendar gives its next event
  lock,          \* holder of LockService.getScriptLock(), or NoProc
  pc,            \* each invocation's position
  call,          \* each invocation's arguments and caller
  loc,           \* locals: empleado and dias of lines 375-376, count of line 130,
                 \* the cells handleEstadoChange_ reads at lines 759-765
  result,        \* what the last step returned or threw to its caller, if it did
  mail,          \* the manager notifications the last step sent
  cache,         \* CacheService: the rate-limit counter of each key
  passed,        \* calls that passed the rate-limit check since the key's entry began
  opsLeft        \* invocations still allowed to start

vars == << solicitudes, usados, calendar, nextEventId, lock, pc, call, loc,
           result, mail, cache, passed, opsLeft >>

\* ------------------------------------------------------------------------
\* Dates
\* ------------------------------------------------------------------------
\* parseDateToNoon_: new Date(y, m, d, 12, 0, 0)
parseDateToNoon_(d) == d * 24 + 12

\* normalizeDate_: setHours(0, 0, 0, 0)
normalizeDate_(t) == (t \div 24) * 24

\* Date.getDay()
getDay(t) == (t \div 24) % 7

\* today = new Date(); today.setHours(0, 0, 0, 0)
today == normalizeDate_(Today * 24 + 9)

RECURSIVE countFrom(_, _)
countFrom(cur, e) ==
  IF cur <= e
    THEN (IF getDay(cur) # 0 /\ getDay(cur) # 6 THEN 1 ELSE 0)
         + countFrom(cur + 24, e)
    ELSE 0

\* Mutant of countBusinessDays_: the loop stops before the last day
\* (cur < e).
countBusinessDaysBeforeEnd(start, end) ==
  LET s == normalizeDate_(start)
      e == normalizeDate_(end)
  IN IF start = NoDate \/ end = NoDate THEN 0
     ELSE IF e < s THEN 0 ELSE countFrom(s, e - 24)

countBusinessDays_(start, end) ==
  LET s == normalizeDate_(start)
      e == normalizeDate_(end)
  IN IF start = NoDate \/ end = NoDate THEN 0
     ELSE IF e < s THEN 0 ELSE countFrom(s, e)

\* ------------------------------------------------------------------------
\* Strings
\* ------------------------------------------------------------------------
\* String.prototype.toLowerCase on the strings of the model
toLowerCase(s) ==
  CASE s = "Ana" -> "ana"
    [] s = "Bob" -> "bob"
    [] OTHER -> s

\* est.includes('Aprobado')
includesAprobado(est) == est \in {APROBADO, APROBADO_EXCEPCION}

\* ------------------------------------------------------------------------
\* Empleados lookups
\* ------------------------------------------------------------------------
EmpIdx == 1 .. Len(Empleados)

\* Index of the first Empleados row whose name or email matches, 0 if none.
findEmpleado(key) ==
  LET hits == { i \in EmpIdx :
                  \/ toLowerCase(Empleados[i].name) = toLowerCase(key)
                  \/ toLowerCase(Empleados[i].email) = toLowerCase(key) }
  IN IF hits = {} THEN 0 ELSE CHOOSE i \in hits : \A j \in hits : i <= j

_buscarNombrePorEmail(email) ==
  LET hits == { i \in EmpIdx :
                  toLowerCase(Empleados[i].email) = toLowerCase(email) }
  IN IF hits = {} THEN email
     ELSE Empleados[CHOOSE i \in hits : \A j \in hits : i <= j].name

getEmployeeTeam_(empleado) ==
  LET i == findEmpleado(empleado)
  IN IF i = 0 THEN "" ELSE Empleados[i].team

\* The Empleados header has no 'SaldoVacaciones' column (indexOf = -1), so
\* remaining = saldoHR - usados.
getEmployeeTotals_(us, empleadoOrEmail) ==
  LET i == findEmpleado(empleadoOrEmail)
  IN IF i = 0
       THEN [total |-> 0, usados |-> 0, remaining |-> 0]
       ELSE [total |-> Empleados[i].saldoHR, usados |-> us[i],
             remaining |-> Empleados[i].saldoHR - us[i]]

\* Mutant of sumUsed: column 7 of every row of the employee, whatever its
\* status.
RECURSIVE sumRequested(_, _, _)
sumRequested(sol, emp, n) ==
  IF n = 0 THEN 0
  ELSE sumRequested(sol, emp, n - 1)
       + (IF sol[n].empleado = emp
            THEN (IF sol[n].dias = NoDias THEN 0 ELSE sol[n].dias)
            ELSE 0)

\* Lines 809-818: usedByEmp[emp] over the first n rows.
RECURSIVE sumUsed(_, _, _)
sumUsed(sol, emp, n) ==
  IF n = 0 THEN 0
  ELSE sumUsed(sol, emp, n - 1)
       + (IF includesAprobado(sol[n].estado) /\ sol[n].empleado = emp
            THEN (IF sol[n].dias = NoDias THEN 0 ELSE sol[n].dias)
            ELSE 0)

\* recalcEmpleados_: column 5 of every Empleados row, from the request rows.
recalcAccumulating(sol, us) ==
  [ i \in DOMAIN us |-> us[i] + sumUsed(sol, Empleados[i].name, Len(sol)) ]

recalcEmpleados_(sol, us) ==
  [ i \in DOMAIN us |-> sumUsed(sol, Empleados[i].name, Len(sol)) ]

\* ------------------------------------------------------------------------
\* Conflict detection
\* ------------------------------------------------------------------------
\* Sheet rows of the data range below the header: 2 .. getLastRow()
DataRows(sol) == 2 .. (Len(sol) + 1)

\* A sheet row none of whose cells was written.
BlankRow ==
  [ts |-> NoTs, email |-> "", empleado |-> "", ini |-> NoDate, fin |-> NoDate,
   estado |-> "", dias |-> NoDias, eventId |-> NoEvent, note |-> NoNote]

\* getRange(rowId, col).getValue(): the cells of a row below the last one
\* read as empty.
rowAt(sol, rowId) == IF rowId \in DataRows(sol) THEN sol[rowId - 1] ELSE BlankRow

\* getRange(rowId, col).setValue(v) on the row below the last one makes it
\* the last row of the sheet.
withRow(sol, rowId) == IF rowId = Len(sol) + 2 THEN Append(sol, BlankRow) ELSE sol

rangesOverlapStrict(s0, e0, s1, e1) == s0 < e1 /\ s1 < e0
rangesOverlap(s0, e0, s1, e1) == s0 <= e1 /\ s1 <= e0

\* The status filter both scans apply (lines 840 and 868).
isActiveOrReview(est) ==
  est = PENDIENTE \/ est = NECESITA_REVISION \/ includesAprobado(est)
isActiveEstado(est) == est = PENDIENTE \/ includesAprobado(est)

\* Rows the same-employee scan matches (lines 863-873).
selfOverlapRows(sol, empleado, start, end, currentRow) ==
  { r \in DataRows(sol) :
      /\ r # currentRow
      /\ sol[r - 1].empleado = empleado
      /\ isActiveEstado(sol[r - 1].estado)
      /\ rangesOverlap(normalizeDate_(start), normalizeDate_(end),
                       normalizeDate_(sol[r - 1].ini),
                       normalizeDate_(sol[r - 1].fin)) }

hasOverlapPendingOrApprovedSameEmployee_(sol, empleado, start, end, currentRow) ==
  selfOverlapRows(sol, empleado, start, end, currentRow) # {}

\* Rows the team scan matches (lines 837-851).
teamOverlapPendingOnly(sol, empleado, start, end, currentRow) ==
  { r \in DataRows(sol) :
      /\ r # currentRow
      /\ sol[r - 1].estado = PENDIENTE
      /\ sol[r - 1].empleado # empleado
      /\ getEmployeeTeam_(sol[r - 1].empleado) = getEmployeeTeam_(empleado)
      /\ rangesOverlap(normalizeDate_(start), normalizeDate_(end),
                       normalizeDate_(sol[r - 1].ini),
                       normalizeDate_(sol[r - 1].fin)) }
teamOverlapRows(sol, empleado, start, end, currentRow) ==
  { r \in DataRows(sol) :
      /\ r # currentRow
      /\ isActiveEstado(sol[r - 1].estado)
      /\ sol[r - 1].empleado # ""
      /\ sol[r - 1].empleado # empleado
      /\ getEmployeeTeam_(sol[r - 1].empleado) # ""
      /\ getEmployeeTeam_(sol[r - 1].empleado) = getEmployeeTeam_(empleado)
      /\ rangesOverlap(normalizeDate_(start), normalizeDate_(end),
                       normalizeDate_(sol[r - 1].ini),
                       normalizeDate_(sol[r - 1].fin)) }

\* The sheet row of the first match, 0 for null.
hasTeamOverlapPendingOrApproved_(sol, empleado, start, end, currentRow) ==
  LET hits == teamOverlapRows(sol, empleado, start, end, currentRow)
  IN IF getEmployeeTeam_(empleado) = "" \/ hits = {} THEN 0
     ELSE CHOOSE r \in hits : \A q \in hits : r <= q

\* ------------------------------------------------------------------------
\* Sorting the request sheet
\* ------------------------------------------------------------------------
\* Ascending order of column 4, empty cells last.
notAfter(a, b) == b = NoDate \/ (a # NoDate /\ a <= b)

RECURSIVE insertByIni(_, _)
insertByIni(row, sorted) ==
  IF sorted = << >> THEN << row >>
  ELSE IF notAfter(sorted[Len(sorted)].ini, row.ini) THEN Append(sorted, row)
  ELSE Append(insertByIni(row, SubSeq(sorted, 1, Len(sorted) - 1)),
              sorted[Len(sorted)])

RECURSIVE sortRows(_)
sortRows(s) ==
  IF s = << >> THEN << >>
  ELSE insertByIni(s[Len(s)], sortRows(SubSeq(s, 1, Len(s) - 1)))

\* Range.sort on column 4 ascending, only when getLastRow() > 2.
sortSolicitudesByFechaInicio_(sol) ==
  IF Len(sol) + 1 > 2 THEN sortRows(sol) ELSE sol

\* ------------------------------------------------------------------------
\* processRequestRow_(sheet, row): the sheets it leaves
\* ------------------------------------------------------------------------
\* The calls of MailApp.sendEmail a step makes to notify the managers.
NoMail == << >>

\* notifyManagersCompact_: one mail to the first manager, the others in cc.
notifyManagersCompact_(subject) ==
  IF Len(Managers) = 0 THEN NoMail
  ELSE << [to |-> Managers[1], cc |-> Tail(Managers), subject |-> subject] >>

\* Mutant of subjectManager: the duplicate branch prepares a manager
\* notification as the other two branches do.
subjectManagerInEveryBranch(teamOverlap, selfOverlap) ==
  IF teamOverlap # 0 THEN "Conflict"
  ELSE IF selfOverlap THEN "Duplicate Request"
  ELSE "New Request"

\* subjectManager after the branches of lines 524-574: '' where none is
\* assigned (lines 552-555).
subjectManager(teamOverlap, selfOverlap) ==
  IF teamOverlap # 0 THEN "Conflict"
  ELSE IF selfOverlap THEN ""
  ELSE "New Request"

setEstadoNote(sol, row, est, note) ==
  [sol EXCEPT ![row - 1].estado = est, ![row - 1].note = note]

processRequestRow_(sol, us, row) ==
  LET sol0 == IF sol[row - 1].estado = ""
                THEN [sol EXCEPT ![row - 1].estado = PENDIENTE] ELSE sol
      empleado == sol0[row - 1].empleado
      ini == sol0[row - 1].ini
      fin == sol0[row - 1].fin
      isValid == /\ empleado # "" /\ ini # NoDate /\ fin # NoDate
                 /\ normalizeDate_(fin) >= normalizeDate_(ini)
      dias == countBusinessDays_(ini, fin)
      sol1 == [sol0 EXCEPT ![row - 1].dias = dias]
      teamOverlap == hasTeamOverlapPendingOrApproved_(sol1, empleado, ini, fin, row)
      selfOverlap == hasOverlapPendingOrApprovedSameEmployee_(sol1, empleado, ini, fin, row)
      sol2 == IF teamOverlap # 0
                THEN setEstadoNote(sol1, row, NECESITA_REVISION,
                                   << "Conflict", sol1[teamOverlap - 1].empleado,
                                      sol1[teamOverlap - 1].estado >>)
              ELSE IF selfOverlap
                THEN setEstadoNote(sol1, row, NECESITA_REVISION,
                                   << "Duplicate Request", "", "" >>)
              ELSE sol1
      \* if (subjectManager) notifyManagersCompact_(...): lines 576-578
      subject == subjectManager(teamOverlap, selfOverlap)
      mail2 == IF subject # "" THEN notifyManagersCompact_(subject) ELSE NoMail
  IN IF ~isValid
       THEN [sol |-> [sol0 EXCEPT ![row - 1].note = << "Invalid Data", "", "" >>],
             us |-> us, mail |-> NoMail]
       ELSE [sol |-> sortSolicitudesByFechaInicio_(sol2),
             us |-> recalcEmpleados_(sol2, us),
             mail |-> mail2]

\* ------------------------------------------------------------------------
\* Invocations
\* ------------------------------------------------------------------------
NoCall == [op |-> "", user |-> "", rowId |-> 0, startDate |-> 0,
           endDate |-> 0, action |-> ""]
NoLoc == [empleado |-> "", dias |-> 0, count |-> 0, read |-> BlankRow]
NoResult == << "", "" >>
Success == << "success", "" >>
NoReturn == [proc |-> NoProc, call |-> NoCall, val |-> NoResult]

\* RATE_LIMITS: the max of each action (the window is the lifetime of the
\* cache entry).
RATE_LIMITS == [create_request |-> 5, cancel_request |-> 3, edit_request |-> 10]

\* Keys of the cache: ratelimit_<action>_<userEmail>
RateKeys == (DOMAIN RATE_LIMITS) \X Users

TooMany == << "Too many attempts", "" >>

\* Line 135: whether checkRateLimit_ throws for the count it read.
rateExceeded(count, action) == count >= RATE_LIMITS[action]

Init ==
  /\ solicitudes = << >>
  /\ usados = [ i \in EmpIdx |-> 0 ]
  /\ calendar = {}
  /\ nextEventId = 1
  /\ lock = NoProc
  /\ pc = [ p \in Procs |-> "idle" ]
  /\ call = [ p \in Procs |-> NoCall ]
  /\ loc = [ p \in Procs |-> NoLoc ]
  /\ result = NoReturn
  /\ mail = NoMail
  /\ cache = [ k \in RateKeys |-> 0 ]
  /\ passed = [ k \in RateKeys |-> 0 ]
  /\ opsLeft = MaxOps

\* An invocation of p begins, within the budget of invocations.
Begin(p) ==
  /\ pc[p] = "idle"
  /\ opsLeft > 0
  /\ opsLeft' = opsLeft - 1

\* The invocation c of p returns res or throws it.
ReturnSending(p, c, res, sent) ==
  /\ pc' = [pc EXCEPT ![p] = "idle"]
  /\ call' = [call EXCEPT ![p] = NoCall]
  /\ loc' = [loc EXCEPT ![p] = NoLoc]
  /\ result' = [proc |-> p, call |-> c, val |-> res]
  /\ mail' = sent
  /\ UNCHANGED << cache, passed >>

Return(p, c, res) == ReturnSending(p, c, res, NoMail)

\* The invocation c of p goes on at position next.
Goto(p, c, next) ==
  /\ pc' = [pc EXCEPT ![p] = next]
  /\ call' = [call EXCEPT ![p] = c]
  /\ result' = NoReturn
  /\ mail' = NoMail
  /\ UNCHANGED << cache, passed >>

\* checkRateLimit_(userEmail, action) at the entry of the invocation c of p,
\* lines 128-141 in one step: it throws, or counts the call and c goes on at
\* position next.
checkRateLimit_(p, c, action, next) ==
  LET key == << action, c.user >>
  IN IF rateExceeded(cache[key], action)
       THEN Return(p, c, TooMany)
       ELSE /\ pc' = [pc EXCEPT ![p] = next]
            /\ call' = [call EXCEPT ![p] = c]
            /\ result' = NoReturn
            /\ mail' = NoMail
            /\ cache' = [cache EXCEPT ![key] = cache[key] + 1]
            /\ passed' = [passed EXCEPT ![key] = passed[key] + 1]
            /\ UNCHANGED loc

\* lock.waitLock(ms) returning to p: the holder after it.
waitLock(holder, p) == p

\* Mutant of lockAfterFinally: releaseLock at the end of the try block
\* instead of in a finally, so that a throw skips it.
lockAfterTryOnly(holder, p, threw) ==
  IF holder = p /\ ~threw THEN NoProc ELSE holder

\* finally { lock.releaseLock(); }: the holder after the try statement that
\* p leaves, normally or by a throw.
lockAfterFinally(holder, p, threw) == IF holder = p THEN NoProc ELSE holder

\* lock.waitLock(ms) throws after its timeout, the lock being held:
\* lines 311-313, 405, 459
waitLockIgnored(p) ==
  /\ pc[p] \in {"create_lock", "cancel_lock", "edit_lock"}
  /\ lock # NoProc
  /\ Goto(p, call[p], IF pc[p] = "create_lock" THEN "create_append"
                      ELSE IF pc[p] = "cancel_lock" THEN "cancel_write"
                      ELSE "edit_process")
  /\ UNCHANGED << solicitudes, usados, calendar, nextEventId, lock, loc,
                  opsLeft >>

waitLockTimeout(p) ==
  /\ pc[p] \in {"create_lock", "cancel_lock", "edit_lock"}
  /\ lock # NoProc
  /\ Return(p, call[p], << "Server busy", "" >>)
  /\ UNCHANGED << solicitudes, usados, calendar, nextEventId, lock, opsLeft >>

\* ------------------------------------------------------------------------
\* apiCreateRequest
\* ------------------------------------------------------------------------
\* Creates in flight, which may each still append a row.
creating == { q \in Procs : call[q].op = "create" }

\* apiCreateRequest(startDate, endDate) is called: lines 304-306
CallCreate(p, users, days) ==
  \E u \in users, s \in days : \E e \in EndDays(s) :
    /\ Begin(p)
    /\ Len(solicitudes) + Cardinality(creating) < MaxRows
    /\ checkRateLimit_(p, [NoCall EXCEPT !.op = "create", !.user = u,
                                         !.startDate = s, !.endDate = e],
                       "create_request", "create_lock")
    /\ UNCHANGED << solicitudes, usados, calendar, nextEventId, lock >>

\* Lines 316-335: the error the validation throws, or NoResult.
createValidation(sol, userEmail, startDate, endDate) ==
  LET nombreEmpleado == _buscarNombrePorEmail(userEmail)
      startObj == parseDateToNoon_(startDate)
      endObj == parseDateToNoon_(endDate)
  IN IF startObj < today
       THEN << "Cannot request vacation for past dates", "" >>
     ELSE IF /\ ENFORCE_MIN_ADVANCE_DAYS
             /\ MIN_ADVANCE_DAYS > 0
             /\ startObj - today < MIN_ADVANCE_DAYS * 24
       THEN << "Requests must be made in advance", "" >>
     ELSE IF hasOverlapPendingOrApprovedSameEmployee_(sol, nombreEmpleado,
                                                      startObj, endObj, -1)
       THEN << "You already have a request for these dates", "" >>
     ELSE NoResult

\* The row appendRow writes at line 340.
\* new Date() of line 341, column 1: the time of the append, counted in the
\* rows appended so far (rows are never deleted).
now(sol) == Len(sol) + 1

newRow(userEmail, startDate, endDate) ==
  [ts |-> now(solicitudes), email |-> userEmail, empleado |-> _buscarNombrePorEmail(userEmail),
   ini |-> parseDateToNoon_(startDate), fin |-> parseDateToNoon_(endDate),
   estado |-> PENDIENTE, dias |-> NoDias, eventId |-> NoEvent, note |-> NoNote]

\* Lines 308-335: the lock is taken and the request validated; a throw
\* leaves through the finally of lines 354-356.
CreateValidate(p) ==
  /\ pc[p] = "create_lock"
  /\ lock = NoProc
  /\ \E dbOk \in BOOLEAN :
       LET err == IF dbOk
                    THEN createValidation(solicitudes, call[p].user,
                                          call[p].startDate, call[p].endDate)
                    ELSE << "Error connecting to database", "" >>
       IN IF err = NoResult
            THEN /\ Goto(p, call[p], "create_append")
                 /\ lock' = waitLock(lock, p)
                 /\ UNCHANGED loc
            ELSE /\ Return(p, call[p], err)
                 /\ lock' = lockAfterFinally(waitLock(lock, p), p, TRUE)
  /\ UNCHANGED << solicitudes, usados, calendar, nextEventId, opsLeft >>

\* Lines 337-356: appendRow, processRequestRow_ on the last row, return.
CreateAppend(p) ==
  /\ pc[p] = "create_append"
  /\ LET sol1 == Append(solicitudes, newRow(call[p].user, call[p].startDate,
                                            call[p].endDate))
         newRowIndex == Len(sol1) + 1
         done == processRequestRow_(sol1, usados, newRowIndex)
     IN /\ solicitudes' = done.sol
        /\ usados' = done.us
        /\ ReturnSending(p, call[p], Success, done.mail)
  /\ lock' = lockAfterFinally(lock, p, FALSE)
  /\ UNCHANGED << calendar, nextEventId, opsLeft >>

\* ------------------------------------------------------------------------
\* apiCancelRequest
\* ------------------------------------------------------------------------
\* apiCancelRequest(rowId) is called: lines 400-402
CallCancel(p, users) ==
  \E u \in users, r \in 2 .. (Len(solicitudes) + 2) :
    /\ Begin(p)
    /\ checkRateLimit_(p, [NoCall EXCEPT !.op = "cancel", !.user = u,
                                         !.rowId = r],
                       "cancel_request", "cancel_lock")
    /\ UNCHANGED << solicitudes, usados, calendar, nextEventId, lock >>

\* Lines 413-425: the error the checks throw, or NoResult.
cancelOwnerOnly(sol, userEmail, rowId) ==
  IF /\ rowId \in DataRows(sol)
     /\ toLowerCase(sol[rowId - 1].email) = toLowerCase(userEmail)
    THEN NoResult
    ELSE << "Request not found or permission denied", "" >>
cancelValidation(sol, userEmail, rowId) ==
  LET found == /\ rowId \in DataRows(sol)
               /\ toLowerCase(sol[rowId - 1].email) = toLowerCase(userEmail)
      status == IF rowId \in DataRows(sol) THEN sol[rowId - 1].estado ELSE ""
  IN IF ~found
       THEN << "Request not found or permission denied", "" >>
     ELSE IF status # PENDIENTE /\ status # NECESITA_REVISION
       THEN << "Cannot cancel request with status", status >>
     ELSE NoResult

\* Lines 404-425: the lock is taken and the request checked; a throw leaves
\* through the finally of lines 446-448.
CancelCheck(p) ==
  /\ pc[p] = "cancel_lock"
  /\ lock = NoProc
  /\ \E dbOk \in BOOLEAN :
       LET err == IF dbOk
                    THEN cancelValidation(solicitudes, call[p].user, call[p].rowId)
                    ELSE << "Error connecting to database", "" >>
       IN IF err = NoResult
            THEN /\ Goto(p, call[p], "cancel_write")
                 /\ lock' = waitLock(lock, p)
                 /\ UNCHANGED loc
            ELSE /\ Return(p, call[p], err)
                 /\ lock' = lockAfterFinally(waitLock(lock, p), p, TRUE)
  /\ UNCHANGED << solicitudes, usados, calendar, nextEventId, opsLeft >>

\* Lines 431-439 and 787-793: the event of the row is deleted and its
\* reference cleared, unless a calendar call throws, which the catch swallows.
cleanupEvent(sol, cal, rowId, calOk) ==
  LET eventId == sol[rowId - 1].eventId
  IN IF eventId # NoEvent /\ calOk
       THEN [sol |-> [sol EXCEPT ![rowId - 1].eventId = NoEvent],
             cal |-> { ev \in cal : ev.id # eventId }]
       ELSE [sol |-> sol, cal |-> cal]

\* Lines 427-448
CancelWrite(p) ==
  /\ pc[p] = "cancel_write"
  /\ \E calOk \in BOOLEAN :
       LET rowId == call[p].rowId
           sol1 == [solicitudes EXCEPT ![rowId - 1].estado = CANCELADO]
           done == cleanupEvent(sol1, calendar, rowId, calOk)
       IN /\ solicitudes' = done.sol
          /\ calendar' = done.cal
          /\ usados' = recalcEmpleados_(done.sol, usados)
  /\ lock' = lockAfterFinally(lock, p, FALSE)
  /\ Return(p, call[p], Success)
  /\ UNCHANGED << nextEventId, opsLeft >>

\* ------------------------------------------------------------------------
\* apiEditRequest
\* ------------------------------------------------------------------------
\* apiEditRequest(rowId, startDate, endDate) is called: lines 454-456
CallEdit(p, users, days, rows) ==
  \E u \in users, r \in rows, s \in days : \E e \in EndDays(s) :
    /\ Begin(p)
    /\ checkRateLimit_(p, [NoCall EXCEPT !.op = "edit", !.user = u, !.rowId = r,
                                         !.startDate = s, !.endDate = e],
                       "edit_request", "edit_lock")
    /\ UNCHANGED << solicitudes, usados, calendar, nextEventId, lock >>

\* Lines 458-474: the lock is taken and the dates and the status written;
\* a throw of _getDb leaves through the finally of lines 482-484.
EditWrite(p) ==
  /\ pc[p] = "edit_lock"
  /\ lock = NoProc
  /\ \E dbOk \in BOOLEAN :
       IF dbOk
         THEN /\ solicitudes' =
                   [withRow(solicitudes, call[p].rowId) EXCEPT
                      ![call[p].rowId - 1].ini = parseDateToNoon_(call[p].startDate),
                      ![call[p].rowId - 1].fin = parseDateToNoon_(call[p].endDate),
                      ![call[p].rowId - 1].estado = PENDIENTE]
              /\ Goto(p, call[p], "edit_process")
              /\ lock' = waitLock(lock, p)
              /\ UNCHANGED loc
         ELSE /\ Return(p, call[p], << "Error connecting to database", "" >>)
              /\ lock' = lockAfterFinally(waitLock(lock, p), p, TRUE)
              /\ UNCHANGED solicitudes
  /\ UNCHANGED << usados, calendar, nextEventId, opsLeft >>

\* Lines 476-484
EditProcess(p) ==
  /\ pc[p] = "edit_process"
  /\ LET done == processRequestRow_(solicitudes, usados, call[p].rowId)
     IN /\ solicitudes' = done.sol
        /\ usados' = done.us
        /\ ReturnSending(p, call[p], Success, done.mail)
  /\ lock' = lockAfterFinally(lock, p, FALSE)
  /\ UNCHANGED << calendar, nextEventId, opsLeft >>

\* ------------------------------------------------------------------------
\* apiProcessRequest
\* ------------------------------------------------------------------------
isSignedIn(userEmail) == userEmail # ""
isManager(userEmail) == \E i \in DOMAIN Managers : Managers[i] = userEmail

\* Number(cell) || 0 of column 7
numberOrZero(dias) == IF dias = NoDias THEN 0 ELSE dias

\* Lines 380-386: whether the balance check throws.
balanceAlreadyNegative(action, remaining, dias) ==
  /\ action = APROBADO
  /\ ENFORCE_BALANCE_BEFORE_EVENT
  /\ remaining < 0
insufficientBalance(action, remaining, dias) ==
  /\ action = APROBADO
  /\ ENFORCE_BALANCE_BEFORE_EVENT
  /\ remaining - dias < 0

\* Lines 364-386: the error thrown before the status is written, or NoResult.
processValidation(sol, us, userEmail, rowId, action, dbOk) ==
  LET empleado == rowAt(sol, rowId).empleado
      dias == numberOrZero(rowAt(sol, rowId).dias)
      totals == getEmployeeTotals_(us, empleado)
  IN IF ~isManager(userEmail)
       THEN << "Unauthorized: Only managers can perform this action", "" >>
     ELSE IF ~dbOk
       THEN << "Error connecting to database", "" >>
     ELSE IF insufficientBalance(action, totals.remaining, dias)
       THEN << "Insufficient balance", "" >>
     ELSE NoResult

\* apiProcessRequest(rowId, action) is called and runs lines 364-386: the
\* roster check, the reads of the row and the balance check.
CallProcess(p, users, decisions, rows) ==
  \E u \in users, r \in rows, a \in decisions, dbOk \in BOOLEAN :
    LET c == [NoCall EXCEPT !.op = "process", !.user = u, !.rowId = r,
                            !.action = a]
        err == processValidation(solicitudes, usados, u, r, a, dbOk)
    IN /\ Begin(p)
       /\ IF err = NoResult
            THEN /\ Goto(p, c, "process_write")
                 /\ loc' = [loc EXCEPT ![p] =
                      [empleado |-> rowAt(solicitudes, r).empleado,
                       dias |-> numberOrZero(rowAt(solicitudes, r).dias),
                       count |-> 0, read |-> BlankRow]]
            ELSE Return(p, c, err)
       /\ UNCHANGED << solicitudes, usados, calendar, nextEventId, lock >>

\* The event lines 769-779 create or update for the row.
eventFor(id, row) ==
  [id |-> id,
   title |-> << IF row.estado = APROBADO_EXCEPCION
                  THEN "Vacations (EXCEPTION)" ELSE "Vacations", row.empleado >>,
   s |-> normalizeDate_(row.ini),
   e |-> normalizeDate_(row.fin) + 24]

CalendarOutcomes == {"ok", "getCalendar throws", "event call throws"}

\* handleEstadoChange_(sheet, row, prevEstado): the sheet and the calendar
\* it leaves, and whether it throws.
handleEstadoChange_(sol, cal, nextId, rowId, outcome) ==
  LET row == sol[rowId - 1]
      eventId == row.eventId
      live == eventId # NoEvent /\ \E ev \in cal : ev.id = eventId
      same == [sol |-> sol, cal |-> cal, nextId |-> nextId, threw |-> FALSE]
  IN IF outcome = "getCalendar throws"
       THEN [same EXCEPT !.threw = TRUE]
     ELSE IF includesAprobado(row.estado)
       THEN IF outcome = "event call throws"
              THEN [same EXCEPT !.threw = TRUE]
            ELSE IF live
              THEN [same EXCEPT !.cal = { ev \in cal : ev.id # eventId }
                                        \cup { eventFor(eventId, row) }]
            ELSE [sol |-> [sol EXCEPT ![rowId - 1].eventId = nextId],
                  cal |-> cal \cup { eventFor(nextId, row) },
                  nextId |-> nextId + 1, threw |-> FALSE]
     ELSE LET done == cleanupEvent(sol, cal, rowId, outcome = "ok")
          IN [same EXCEPT !.sol = done.sol, !.cal = done.cal]

\* Lines 389-390: the status is written and handleEstadoChange_ runs; what
\* it throws leaves apiProcessRequest.
ProcessWrite(p) ==
  /\ pc[p] = "process_write"
  /\ \E outcome \in CalendarOutcomes :
       LET rowId == call[p].rowId
           sol1 == [withRow(solicitudes, rowId) EXCEPT
                      ![rowId - 1].estado = call[p].action]
           done == handleEstadoChange_(sol1, calendar, nextEventId, rowId, outcome)
       IN /\ solicitudes' = done.sol
          /\ calendar' = done.cal
          /\ nextEventId' = done.nextId
          /\ IF done.threw
               THEN Return(p, call[p], << "Calendar error", "" >>)
               ELSE /\ Goto(p, call[p], "process_recalc")
                    /\ UNCHANGED loc
  /\ UNCHANGED << usados, lock, opsLeft >>

\* Lines 391-394
ProcessRecalc(p) ==
  /\ pc[p] = "process_recalc"
  /\ usados' = recalcEmpleados_(solicitudes, usados)
  /\ Return(p, call[p], Success)
  /\ UNCHANGED << solicitudes, calendar, nextEventId, lock, opsLeft >>

\* ------------------------------------------------------------------------
\* Specifications
\* ------------------------------------------------------------------------
\* The steps of an invocation under way.
Step(p) ==
  \/ waitLockTimeout(p)
  \/ CreateValidate(p)
  \/ CreateAppend(p)
  \/ CancelCheck(p)
  \/ CancelWrite(p)
  \/ EditWrite(p)
  \/ EditProcess(p)
  \/ ProcessWrite(p)
  \/ ProcessRecalc(p)

\* Process p is the browser session of one user.
SessionUser(p) == IF p = 1 THEN "ana@x" ELSE "bob@x"

\* Two sessions, one of an employee and one of a manager, each with one
\* call at a time, run concurrently.
Next ==
  \E p \in Procs :
    \/ CallCreate(p, {SessionUser(p)}, Days)
    \/ CallCancel(p, {SessionUser(p)})
    \/ CallEdit(p, {SessionUser(p)}, Days, DataRows(solicitudes))
    \/ CallProcess(p, {SessionUser(p)}, Decisions, DataRows(solicitudes))
    \/ Step(p)

Spec == Init /\ [][Next]_vars

\* The steps of the invocations that take the lock.
StepLocked(p) ==
  \/ waitLockTimeout(p)
  \/ CreateValidate(p)
  \/ CreateAppend(p)
  \/ CancelCheck(p)
  \/ CancelWrite(p)
  \/ EditWrite(p)
  \/ EditProcess(p)

\* Two sessions creating, cancelling and editing requests for today.
NextLocked ==
  \E p \in Procs :
    \/ CallCreate(p, {SessionUser(p)}, {Today})
    \/ CallCancel(p, {SessionUser(p)})
    \/ CallEdit(p, {SessionUser(p)}, {Today}, DataRows(solicitudes))
    \/ StepLocked(p)

\* lock.waitLock(ms) of lines 309-313, 403-405 and 457-459 with the
\* statements up to the first write: it returns, and the call goes on, or
\* throws when its ms milliseconds have passed.
LockStep(p) ==
  \/ waitLockTimeout(p)
  \/ CreateValidate(p)
  \/ CancelCheck(p)
  \/ EditWrite(p)

\* waitLock(ms) returns or throws within ms: a call waiting for the lock
\* does not wait forever.
SpecLive ==
  Init /\ [][NextLocked]_vars /\ \A p \in Procs : WF_vars(LockStep(p))

\* Two calls of the manager and the creates of one employee, with one
\* invocation more than Spec allows: the decisions on two requests of the
\* same employee run concurrently.
InitRace ==
  /\ solicitudes = << >>
  /\ usados = [ i \in EmpIdx |-> 0 ]
  /\ calendar = {}
  /\ nextEventId = 1
  /\ lock = NoProc
  /\ pc = [ p \in Procs |-> "idle" ]
  /\ call = [ p \in Procs |-> NoCall ]
  /\ loc = [ p \in Procs |-> NoLoc ]
  /\ result = NoReturn
  /\ mail = NoMail
  /\ cache = [ k \in RateKeys |-> 0 ]
  /\ passed = [ k \in RateKeys |-> 0 ]
  /\ opsLeft = MaxOps + 1

NextRace ==
  \E p \in Procs :
    \/ CallCreate(p, {"ana@x"}, Today .. (Today + 1))
    \/ CallProcess(p, {"bob@x"}, {APROBADO}, DataRows(solicitudes))
    \/ waitLockTimeout(p)
    \/ CreateValidate(p)
    \/ CreateAppend(p)
    \/ ProcessWrite(p)
    \/ ProcessRecalc(p)

SpecRace == InitRace /\ [][NextRace]_vars

\* A decision value that is none of the three the dashboard offers: the
\* action argument comes from the client and line 389 writes it as it is.
OTRO_ESTADO == "En espera"

\* One employee creating requests for today and the manager deciding on
\* them with a value of the dashboard or another one.
NextDecide ==
  \E p \in Procs :
    \/ CallCreate(p, {"ana@x"}, {Today})
    \/ CallProcess(p, {"bob@x"}, {RECHAZADO, OTRO_ESTADO},
                   DataRows(solicitudes))
    \/ waitLockTimeout(p)
    \/ CreateValidate(p)
    \/ CreateAppend(p)
    \/ ProcessWrite(p)
    \/ ProcessRecalc(p)

SpecDecide == InitRace /\ [][NextDecide]_vars

\* Calls addressed to the row below the last one, which holds no request:
\* an employee creates requests for today and cancels, edits and (as the
\* manager) rejects at that id.
NextNotFound ==
  \E p \in Procs :
    \/ CallCreate(p, {SessionUser(p)}, {Today})
    \/ CallCancel(p, {SessionUser(p)})
    \/ CallEdit(p, {SessionUser(p)}, {Today}, {Len(solicitudes) + 2})
    \/ CallProcess(p, {"bob@x"}, {RECHAZADO}, {Len(solicitudes) + 2})
    \/ Step(p)

SpecNotFound == Init /\ [][NextNotFound]_vars

\* checkRateLimit_ step by step, for apiCancelRequest. Line 130: the call
\* begins and reads the counter of its key.
CallCancelGet(p, users) ==
  \E u \in users, r \in 2 .. (Len(solicitudes) + 2) :
    /\ Begin(p)
    /\ pc' = [pc EXCEPT ![p] = "cancel_rate"]
    /\ call' = [call EXCEPT ![p] =
                  [NoCall EXCEPT !.op = "cancel", !.user = u, !.rowId = r]]
    /\ loc' = [loc EXCEPT ![p].count = cache[<< "cancel_request", u >>]]
    /\ result' = NoReturn
    /\ mail' = NoMail
    /\ UNCHANGED << solicitudes, usados, calendar, nextEventId, lock, cache,
                    passed >>

\* Lines 135-141: it throws for the count it read, or puts that count plus
\* one and goes on to request the lock.
CallCancelPut(p) ==
  /\ pc[p] = "cancel_rate"
  /\ LET key == << "cancel_request", call[p].user >>
     IN IF rateExceeded(loc[p].count, "cancel_request")
          THEN Return(p, call[p], TooMany)
          ELSE /\ pc' = [pc EXCEPT ![p] = "cancel_lock"]
               /\ cache' = [cache EXCEPT ![key] = loc[p].count + 1]
               /\ passed' = [passed EXCEPT ![key] = passed[key] + 1]
               /\ result' = NoReturn
               /\ mail' = NoMail
               /\ UNCHANGED << call, loc >>
  /\ UNCHANGED << solicitudes, usados, calendar, nextEventId, lock, opsLeft >>

\* The cache entry of a key expires, limit.window seconds after its last
\* put (line 140), while no call of the key is inside checkRateLimit_.
Expire(key) ==
  /\ cache[key] > 0
  /\ \A p \in Procs : pc[p] = "cancel_rate" => call[p].user # key[2]
  /\ cache' = [cache EXCEPT ![key] = 0]
  /\ passed' = [passed EXCEPT ![key] = 0]
  /\ result' = NoReturn
  /\ mail' = NoMail
  /\ UNCHANGED << solicitudes, usados, calendar, nextEventId, lock, pc, call,
                  loc, opsLeft >>

\* Two sessions of the same user cancelling.
NextRateLimit ==
  \/ \E p \in Procs :
       \/ CallCancelGet(p, {"ana@x"})
       \/ CallCancelPut(p)
       \/ CancelCheck(p)
  \/ \E key \in RateKeys : Expire(key)

SpecRateLimit == InitRace /\ [][NextRateLimit]_vars

\* ------------------------------------------------------------------------
\* Vocabulary of the properties
\* ------------------------------------------------------------------------
\* The invocation of p has made a table access and has another to make.
InTransaction(p) ==
  pc[p] \in {"create_append", "cancel_write", "edit_process",
             "process_write", "process_recalc"}

\* The days an employee has left: allowance minus used days.
RemainingDays(name) ==
  LET i == CHOOSE i \in EmpIdx : Empleados[i].name = name
  IN Empleados[i].saldoHR - usados[i]

\* ------------------------------------------------------------------------
\* C1: every mutating operation holds the global lock from its first to its
\* last table access, so that in every reachable state at most one
\* invocation is between its first and its last table access.
\* ------------------------------------------------------------------------
C1_OneTransactionAtATime ==
  Cardinality({ p \in Procs : InTransaction(p) }) <= 1

\* ------------------------------------------------------------------------
\* C2: with balance enforcement enabled, two non-exception approvals of two
\* requests of the same employee whose combined business days exceed the
\* employee's remaining days are never both past the balance check: no
\* decision is taken from a stale read.
\* ------------------------------------------------------------------------
Approving(p) ==
  /\ call[p].op = "process"
  /\ call[p].action = APROBADO
  /\ pc[p] \in {"process_write", "process_recalc"}

C2_NoDecisionFromStaleBalance ==
  \A p, q \in Procs :
    ( /\ p # q
      /\ Approving(p)
      /\ Approving(q)
      /\ call[p].rowId # call[q].rowId
      /\ loc[p].empleado = loc[q].empleado
      /\ loc[p].empleado \in { Empleados[i].name : i \in EmpIdx } )
    => loc[p].dias + loc[q].dias <= RemainingDays(loc[p].empleado)

\* ------------------------------------------------------------------------
\* C3: whoever holds the lock is a Create, Edit or Cancel inside its try
\* block: an invocation that has returned, with success or with any error,
\* does not hold it.
\* ------------------------------------------------------------------------
C3_LockReleasedOnReturn ==
  /\ lock \in Procs \cup {NoProc}
  /\ \A p \in Procs :
       lock = p => pc[p] \in {"create_append", "cancel_write", "edit_process"}

\* A create that took the lock has thrown its conflict error, and the lock
\* is free.
C3_Witness ==
  /\ result.call.op = "create"
  /\ result.val = << "You already have a request for these dates", "" >>
  /\ lock = NoProc

\* ------------------------------------------------------------------------
\* Vocabulary of the properties about single steps
\* ------------------------------------------------------------------------
Busy == << "Server busy", "" >>
DbError == << "Error connecting to database", "" >>
Conflict == << "You already have a request for these dates", "" >>

\* p leaves position at, and not because the lock wait timed out or the
\* spreadsheet could not be opened.
Checks(p, at) ==
  /\ pc[p] = at
  /\ pc'[p] # at
  /\ ~(result'.proc = p /\ result'.val \in {Busy, DbError})

\* The step returns err to p and leaves the sheets and the calendar alone.
Refused(p, err) ==
  /\ result'.proc = p
  /\ result'.val = err
  /\ pc'[p] = "idle"
  /\ UNCHANGED << solicitudes, usados, calendar >>

\* p is idle and its next call begins in this step; the call, which is
\* under way after the step or has returned in it.
Calls(p) ==
  /\ pc[p] = "idle"
  /\ opsLeft' = opsLeft - 1
  /\ (call'[p] # NoCall \/ result'.proc = p)
TheCall(p) == IF call'[p] # NoCall THEN call'[p] ELSE result'.call

ActiveEstados == {PENDIENTE, APROBADO, APROBADO_EXCEPCION}
DayOf(t) == t \div 24

\* The closed day ranges [s, e] and [ini, fin] of the row overlap.
Overlaps(row, s, e) == s <= DayOf(row.fin) /\ DayOf(row.ini) <= e

\* The requester has a request in one of the estados overlapping [s, e].
OwnOverlap(email, s, e, estados) ==
  \E i \in 1 .. Len(solicitudes) :
    /\ solicitudes[i].email = email
    /\ solicitudes[i].estado \in estados
    /\ Overlaps(solicitudes[i], s, e)

TeamOf(email) ==
  LET i == CHOOSE i \in EmpIdx : Empleados[i].email = email
  IN Empleados[i].team

\* The other employees of the requester's team with an active request
\* overlapping [s, e].
TeamConflictors(email, s, e) ==
  { solicitudes[i].empleado :
      i \in { j \in 1 .. Len(solicitudes) :
                /\ solicitudes[j].email # email
                /\ TeamOf(solicitudes[j].email) = TeamOf(email)
                /\ solicitudes[j].estado \in ActiveEstados
                /\ Overlaps(solicitudes[j], s, e) } }

\* ------------------------------------------------------------------------
\* C4: a Create with a valid start date is rejected with the conflict error,
\* and leaves the sheets alone, exactly when the requester has a Pending or
\* approved request overlapping the candidate range; otherwise it goes on to
\* append, and the append inserts one row and returns success.
\* ------------------------------------------------------------------------
C4_CreateConflict ==
  [][ \A p \in Procs :
        /\ ( Checks(p, "create_lock") /\ call[p].startDate >= Today )
           => IF OwnOverlap(call[p].user, call[p].startDate, call[p].endDate,
                            ActiveEstados)
                THEN Refused(p, Conflict)
                ELSE pc'[p] = "create_append" /\ lock' = p
        /\ ( pc[p] = "create_append" /\ pc'[p] # "create_append" )
           => /\ Len(solicitudes') = Len(solicitudes) + 1
              /\ result'.val = Success
    ]_vars

\* A create has been refused for a conflict with a request of its caller.
C4_Witness ==
  /\ result.val = Conflict
  /\ OwnOverlap(result.call.user, result.call.startDate, result.call.endDate,
                ActiveEstados)

\* ------------------------------------------------------------------------
\* C5, as claimed: a Create overlapping a request of the same requester that
\* is in NeedsReview is rejected with the conflict error and inserts no row.
\* ------------------------------------------------------------------------
C5_NeedsReviewBlocksCreate ==
  [][ \A p \in Procs :
        ( /\ Checks(p, "create_lock")
          /\ call[p].startDate >= Today
          /\ OwnOverlap(call[p].user, call[p].startDate, call[p].endDate,
                        {NECESITA_REVISION}) )
        => Refused(p, Conflict)
    ]_vars

\* ------------------------------------------------------------------------
\* C5, amended: the same-employee scan counts Pending and the approved
\* states only. A Create with a valid start date whose range overlaps
\* requests of the same requester in NeedsReview, and none that is Pending
\* or approved, is not rejected: it goes on to append its row.
\* ------------------------------------------------------------------------
C5_NeedsReviewNotActive ==
  [][ \A p \in Procs :
        ( /\ Checks(p, "create_lock")
          /\ call[p].startDate >= Today
          /\ OwnOverlap(call[p].user, call[p].startDate, call[p].endDate,
                        {NECESITA_REVISION})
          /\ ~OwnOverlap(call[p].user, call[p].startDate, call[p].endDate,
                         ActiveEstados) )
        => /\ pc'[p] = "create_append"
           /\ result' = NoReturn
           /\ UNCHANGED solicitudes
    ]_vars

\* A create is past its validation although its range overlaps a request of
\* its caller that is in NeedsReview.
C5_Witness ==
  \E p \in Procs :
    /\ pc[p] = "create_append"
    /\ OwnOverlap(call[p].user, call[p].startDate, call[p].endDate,
                  {NECESITA_REVISION})

\* ------------------------------------------------------------------------
\* C6: a Create whose range [s, e], s <= e, overlaps an active request of
\* another employee of the same team is not rejected for it, and its append
\* returns success and inserts one row of the requester with that range,
\* status NeedsReview and a conflict note naming such an employee.
\* ------------------------------------------------------------------------
IsReviewRow(row, email, s, e, names) ==
  /\ row.email = email
  /\ DayOf(row.ini) = s
  /\ DayOf(row.fin) = e
  /\ row.estado = NECESITA_REVISION
  /\ row.note[1] = "Conflict"
  /\ row.note[2] \in names

C6_TeamOverlapNeedsReview ==
  [][ \A p \in Procs :
        LET u == call[p].user
            s == call[p].startDate
            e == call[p].endDate
            names == TeamConflictors(u, s, e)
        IN /\ ( /\ Checks(p, "create_lock")
                /\ s >= Today
                /\ names # {}
                /\ ~OwnOverlap(u, s, e, ActiveEstados) )
              => pc'[p] = "create_append"
           /\ ( /\ pc[p] = "create_append"
                /\ pc'[p] # "create_append"
                /\ s <= e
                /\ names # {} )
              => /\ result'.val = Success
                 /\ Cardinality({ i \in 1 .. Len(solicitudes') :
                        IsReviewRow(solicitudes'[i], u, s, e, names) })
                    = Cardinality({ i \in 1 .. Len(solicitudes) :
                        IsReviewRow(solicitudes[i], u, s, e, names) }) + 1
    ]_vars

\* A create has returned success and its caller has a NeedsReview request
\* whose note names another employee.
C6_Witness ==
  /\ result.call.op = "create"
  /\ result.val = Success
  /\ \E i \in 1 .. Len(solicitudes) :
       /\ solicitudes[i].email = result.call.user
       /\ solicitudes[i].estado = NECESITA_REVISION
       /\ solicitudes[i].note[1] = "Conflict"
       /\ solicitudes[i].note[2] # solicitudes[i].empleado

\* ------------------------------------------------------------------------
\* Vocabulary of the properties about decisions and cancellations
\* ------------------------------------------------------------------------
InRoster(email) == email \in { Managers[i] : i \in DOMAIN Managers }
DiasOf(row) == IF row.dias = NoDias THEN 0 ELSE row.dias
Unauthorized == << "Unauthorized: Only managers can perform this action", "" >>
InsufficientBalance == << "Insufficient balance", "" >>
UsedDays(name) ==
  LET i == CHOOSE i \in EmpIdx : Empleados[i].name = name
  IN usados[i]

\* ------------------------------------------------------------------------
\* C7: with balance enforcement enabled, a decision Approved by a manager on
\* a request whose business days exceed the employee's remaining days fails
\* with the insufficient-balance error and leaves the requests (status and
\* event reference included), the calendar and the used days unchanged.
\* ------------------------------------------------------------------------
C7_InsufficientBalance ==
  [][ \A p \in Procs :
        ( /\ Calls(p)
          /\ TheCall(p).op = "process"
          /\ TheCall(p).action = APROBADO
          /\ InRoster(TheCall(p).user)
          /\ ENFORCE_BALANCE_BEFORE_EVENT
          /\ ~(result'.proc = p /\ result'.val = DbError)
          /\ LET row == solicitudes[TheCall(p).rowId - 1]
             IN RemainingDays(row.empleado) - DiasOf(row) < 0 )
        => Refused(p, InsufficientBalance)
    ]_vars

\* An approval has been refused for a request of more days than remain.
C7_Witness ==
  /\ result.val = InsufficientBalance
  /\ result.call.action = APROBADO
  /\ LET row == solicitudes[result.call.rowId - 1]
     IN /\ row.estado \in {PENDIENTE, NECESITA_REVISION}
        /\ DiasOf(row) > RemainingDays(row.empleado)

\* ------------------------------------------------------------------------
\* C8, as claimed: a decision ApprovedException by a manager that is past
\* the roster check and has opened the spreadsheet returns success, and when
\* it returns the request's status is ApprovedException and the employee's
\* used days include the request's business days.
\* ------------------------------------------------------------------------
C8_ExceptionAlwaysSucceeds ==
  [][ \A p \in Procs :
        ( /\ call[p].op = "process"
          /\ call[p].action = APROBADO_EXCEPCION
          /\ pc[p] \in {"process_write", "process_recalc"}
          /\ pc'[p] = "idle" )
        => /\ result'.val = Success
           /\ solicitudes'[call[p].rowId - 1].estado = APROBADO_EXCEPCION
           /\ UsedDays(loc[p].empleado)' >= loc[p].dias
    ]_vars

\* ------------------------------------------------------------------------
\* C9: a decision by a caller who is not in the manager roster fails with
\* the authorization error and changes neither the requests, the employees'
\* used days nor the calendar.
\* ------------------------------------------------------------------------
C9_OnlyManagersDecide ==
  [][ \A p \in Procs :
        ( /\ Calls(p)
          /\ TheCall(p).op = "process"
          /\ ~InRoster(TheCall(p).user) )
        => Refused(p, Unauthorized)
    ]_vars

\* A decision of a caller outside the roster has been refused.
C9_Witness ==
  /\ result.call.op = "process"
  /\ ~InRoster(result.call.user)
  /\ result.val = Unauthorized

OpenEstados == {PENDIENTE, NECESITA_REVISION}

\* The step returns an error to p and leaves the request in sheet row rowId
\* with its dates, status and business days.
FailsKeeping(p, rowId) ==
  /\ pc'[p] = "idle"
  /\ result'.proc = p
  /\ result'.val # Success
  /\ solicitudes'[rowId - 1].ini = solicitudes[rowId - 1].ini
  /\ solicitudes'[rowId - 1].fin = solicitudes[rowId - 1].fin
  /\ solicitudes'[rowId - 1].estado = solicitudes[rowId - 1].estado
  /\ solicitudes'[rowId - 1].dias = solicitudes[rowId - 1].dias

\* ------------------------------------------------------------------------
\* C11, as claimed: a Cancel of a Pending or NeedsReview request goes on to
\* its write when the caller is the owning requester or is in the manager
\* roster, and is refused with no state change for every other caller.
\* ------------------------------------------------------------------------
C11_OwnerOrManagerCancels ==
  [][ \A p \in Procs :
        LET rowId == call[p].rowId
        IN ( /\ Checks(p, "cancel_lock")
             /\ rowId \in DataRows(solicitudes)
             /\ solicitudes[rowId - 1].estado \in OpenEstados )
           => IF \/ solicitudes[rowId - 1].email = call[p].user
                 \/ InRoster(call[p].user)
                THEN pc'[p] = "cancel_write"
                ELSE /\ pc'[p] = "idle"
                     /\ result'.val # Success
                     /\ UNCHANGED << solicitudes, usados, calendar >>
    ]_vars

\* ------------------------------------------------------------------------
\* C12, as claimed: an Edit by a caller who is not the owning requester, or
\* of a request whose status is neither Pending nor NeedsReview, fails and
\* leaves the request's dates, status and business days unchanged.
\* ------------------------------------------------------------------------
C12_EditOnlyOwnOpen ==
  [][ \A p \in Procs :
        LET rowId == call[p].rowId
        IN ( /\ Checks(p, "edit_lock")
             /\ \/ solicitudes[rowId - 1].email # call[p].user
                \/ solicitudes[rowId - 1].estado \notin OpenEstados )
           => FailsKeeping(p, rowId)
    ]_vars

\* ------------------------------------------------------------------------
\* C13, as claimed: an Edit by the owner of an open request is rejected,
\* with no change to the row, when the new start date is before today or
\* when the new range overlaps another active request of the same
\* requester (the edited request itself not counted).
\* ------------------------------------------------------------------------
OwnOverlapExcept(email, s, e, rowId) ==
  \E i \in 1 .. Len(solicitudes) :
    /\ i + 1 # rowId
    /\ solicitudes[i].email = email
    /\ solicitudes[i].estado \in ActiveEstados
    /\ Overlaps(solicitudes[i], s, e)

C13_EditValidatesLikeCreate ==
  [][ \A p \in Procs :
        LET rowId == call[p].rowId
        IN ( /\ Checks(p, "edit_lock")
             /\ solicitudes[rowId - 1].email = call[p].user
             /\ solicitudes[rowId - 1].estado \in OpenEstados
             /\ \/ call[p].startDate < Today
                \/ OwnOverlapExcept(call[p].user, call[p].startDate,
                                    call[p].endDate, rowId) )
           => /\ FailsKeeping(p, rowId)
              /\ solicitudes'[rowId - 1] = solicitudes[rowId - 1]
    ]_vars

\* ------------------------------------------------------------------------
\* Vocabulary of the properties about requests over time
\* ------------------------------------------------------------------------
ApprovedEstados == {APROBADO, APROBADO_EXCEPCION}
Quiescent == \A p \in Procs : pc[p] = "idle"

\* The business days of the rows I, summed.
RECURSIVE DaysOver(_)
DaysOver(I) ==
  IF I = {} THEN 0
  ELSE LET i == CHOOSE i \in I : TRUE
       IN DiasOf(solicitudes[i]) + DaysOver(I \ {i})

\* The business days of the employee's approved requests.
ApprovedDays(name) ==
  DaysOver({ i \in 1 .. Len(solicitudes) :
               /\ solicitudes[i].empleado = name
               /\ solicitudes[i].estado \in ApprovedEstados })

LedgerExact ==
  \A i \in EmpIdx : usados[i] = ApprovedDays(Empleados[i].name)

\* ------------------------------------------------------------------------
\* C14, as claimed: in every step, a request (followed by the time of its
\* creation) that is Rejected or Cancelled keeps its status, and a request
\* that is Approved or ApprovedException keeps it or becomes Cancelled.
\* ------------------------------------------------------------------------
C14_TerminalStatuses ==
  [][ \A i \in 1 .. Len(solicitudes), j \in 1 .. Len(solicitudes') :
        solicitudes[i].ts = solicitudes'[j].ts
        => LET a == solicitudes[i].estado
               b == solicitudes'[j].estado
           IN /\ a \in {RECHAZADO, CANCELADO} => b = a
              /\ a \in ApprovedEstados => b \in {a, CANCELADO}
    ]_vars

\* ------------------------------------------------------------------------
\* C15, as claimed: a request's id is stable: in every step, every id (sheet
\* row number) that designates a request designates the same request, the
\* one created at the same time, after the step.
\* ------------------------------------------------------------------------
C15_StableIds ==
  [][ \A r \in DataRows(solicitudes) :
        solicitudes'[r - 1].ts = solicitudes[r - 1].ts
    ]_vars

\* ------------------------------------------------------------------------
\* C16, as claimed: whenever no mutating operation is in progress, each
\* employee's used days equal the sum of the business days of that
\* employee's Approved and ApprovedException requests.
\* ------------------------------------------------------------------------
C16_LedgerMatchesApprovals == Quiescent => LedgerExact

\* ------------------------------------------------------------------------
\* C17, as claimed: whatever the calendar does, a decision that has passed
\* its checks writes the new status, returns success, and has the used days
\* recomputed from the requests when it returns.
\* ------------------------------------------------------------------------
C17_CalendarFailureHarmless ==
  [][ \A p \in Procs :
        /\ ( pc[p] = "process_write" /\ pc'[p] # "process_write" )
           => /\ pc'[p] = "process_recalc"
              /\ solicitudes'[call[p].rowId - 1].estado = call[p].action
        /\ ( pc[p] = "process_recalc" /\ pc'[p] # "process_recalc" )
           => /\ result'.val = Success
              /\ LedgerExact'
    ]_vars

\* ------------------------------------------------------------------------
\* C18, as claimed: whenever no mutating operation is in progress, a request
\* carries a calendar event reference only if its status is Approved or
\* ApprovedException.
\* ------------------------------------------------------------------------
C18_EventRefOnlyWhileApproved ==
  Quiescent =>
    \A i \in 1 .. Len(solicitudes) :
      solicitudes[i].eventId # NoEvent
      => solicitudes[i].estado \in ApprovedEstados

\* ------------------------------------------------------------------------
\* C19, as claimed: a Cancel that writes a request carrying a calendar event
\* reference returns success and leaves the reference cleared, whatever the
\* calendar does.
\* ------------------------------------------------------------------------
C19_CancelClearsEventRef ==
  [][ \A p \in Procs :
        ( /\ pc[p] = "cancel_write"
          /\ pc'[p] = "idle"
          /\ solicitudes[call[p].rowId - 1].eventId # NoEvent )
        => /\ result'.val = Success
           /\ solicitudes'[call[p].rowId - 1].estado = CANCELADO
           /\ solicitudes'[call[p].rowId - 1].eventId = NoEvent
    ]_vars

\* ------------------------------------------------------------------------
\* C20, as claimed: a Create whose end date is before its start date fails
\* and inserts no row, and every stored request ends on or after the day it
\* starts.
\* ------------------------------------------------------------------------
C20_EndNotBeforeStart ==
  [][ /\ \A p \in Procs :
           ( /\ Checks(p, "create_lock")
             /\ call[p].endDate < call[p].startDate )
           => /\ pc'[p] = "idle"
              /\ result'.val # Success
              /\ UNCHANGED solicitudes
      /\ \A i \in 1 .. Len(solicitudes') :
           DayOf(solicitudes'[i].fin) >= DayOf(solicitudes'[i].ini)
    ]_vars

\* ------------------------------------------------------------------------
\* C21, as claimed: whenever no mutating operation is in progress, every
\* stored request whose business days are set has as many of them as there
\* are Monday-to-Friday days in its closed range [start, end].
\* ------------------------------------------------------------------------
Weekdays(s, e) == Cardinality({ d \in s .. e : d % 7 \notin {0, 6} })

C21_BusinessDaysMatchDates ==
  Quiescent =>
    \A i \in 1 .. Len(solicitudes) :
      solicitudes[i].dias # NoDias
      => solicitudes[i].dias = Weekdays(DayOf(solicitudes[i].ini),
                                        DayOf(solicitudes[i].fin))

\* ------------------------------------------------------------------------
\* C22, as claimed: every stored request's status is one of Pending,
\* NeedsReview, Approved, ApprovedException, Rejected, Cancelled, and a
\* decision whose value is not Approved, ApprovedException or Rejected is
\* refused without changing any row.
\* ------------------------------------------------------------------------
AllEstados == {PENDIENTE, NECESITA_REVISION, APROBADO, APROBADO_EXCEPCION,
               RECHAZADO, CANCELADO}

C22_StatusDomain ==
  [][ /\ \A i \in 1 .. Len(solicitudes') :
           solicitudes'[i].estado \in AllEstados
      /\ \A p \in Procs :
           ( /\ Calls(p)
             /\ TheCall(p).op = "process"
             /\ TheCall(p).action \notin Decisions )
           => /\ pc'[p] = "idle"
              /\ result'.val # Success
              /\ UNCHANGED << solicitudes, usados, calendar >>
    ]_vars

\* ------------------------------------------------------------------------
\* C23, as claimed: a Cancel, an Edit and a decision addressed to an id
\* that designates no stored request fail and change nothing: no cell of any
\* row is written and no new row comes into existence.
\* ------------------------------------------------------------------------
NotFound(p) ==
  /\ pc'[p] = "idle"
  /\ result'.proc = p
  /\ result'.val # Success
  /\ UNCHANGED << solicitudes, usados, calendar >>

C23_UnknownIdChangesNothing ==
  [][ \A p \in Procs :
        /\ ( /\ Checks(p, "cancel_lock")
             /\ call[p].rowId \notin DataRows(solicitudes) )
           => NotFound(p)
        /\ ( /\ Checks(p, "edit_lock")
             /\ call[p].rowId \notin DataRows(solicitudes) )
           => NotFound(p)
        /\ ( /\ Calls(p)
             /\ TheCall(p).op = "process"
             /\ TheCall(p).rowId \notin DataRows(solicitudes) )
           => NotFound(p)
    ]_vars

\* ------------------------------------------------------------------------
\* C24, as claimed: for each identity and rate-limited action, no more calls
\* than the configured maximum pass the rate-limit check within one window,
\* also when calls of the same identity run concurrently.
\* ------------------------------------------------------------------------
C24_RateLimitHolds ==
  \A key \in RateKeys : passed[key] <= RATE_LIMITS[key[1]]

\* ------------------------------------------------------------------------
\* C25: an invocation of Create, Edit or Cancel that waits for the lock
\* while another invocation holds it, and ends its wait, ends it with the
\* 'server busy' error, having changed neither the requests nor the
\* employees (nor the lock); and no invocation waits for the lock forever.
\* ------------------------------------------------------------------------
LockWaits == {"create_lock", "cancel_lock", "edit_lock"}

C25_LockWaitBounded ==
  /\ [][ \A p \in Procs :
           ( pc[p] \in LockWaits /\ lock # NoProc /\ pc'[p] # pc[p] )
           => Refused(p, Busy) /\ UNCHANGED lock
       ]_vars
  /\ \A p \in Procs : (pc[p] \in LockWaits) ~> (pc[p] \notin LockWaits)

\* An invocation has given up waiting for a lock that another one holds.
C25_Witness ==
  /\ result.val = Busy
  /\ result.call.op \in {"create", "cancel", "edit"}
  /\ lock \in Procs
  /\ lock # result.proc


\* ------------------------------------------------------------------------
\* C26: recomputing the ledger twice in a row, the requests unchanged in
\* between, leaves every employee's used and remaining days as the first
\* recomputation left them, whatever the ledger held before.
\* ------------------------------------------------------------------------
C26_RecalcIdempotent ==
  LET once == recalcEmpleados_(solicitudes, usados)
      twice == recalcEmpleados_(solicitudes, once)
  IN \A i \in EmpIdx :
       /\ twice[i] = once[i]
       /\ getEmployeeTotals_(twice, Empleados[i].name).remaining
            = getEmployeeTotals_(once, Empleados[i].name).remaining

\* An approval is written and the ledger not yet recomputed: the first
\* recomputation changes the used days.
C26_Witness ==
  /\ \E p \in Procs : pc[p] = "process_recalc"
  /\ \E i \in EmpIdx :
       /\ recalcEmpleados_(solicitudes, usados)[i] > 0
       /\ recalcEmpleados_(solicitudes, usados)[i] # usados[i]


\* ------------------------------------------------------------------------
\* C27: the employee table's name, email, team and allowance are written by
\* no operation (they are the fixed table Empleados); the used days change
\* only in a step that runs the recomputation, and then become the business
\* days of the employee's approved requests.
\* ------------------------------------------------------------------------
RecomputeSteps ==
  {"create_append", "edit_process", "cancel_write", "process_recalc"}

C27_OnlyRecomputeWritesUsedDays ==
  [][ usados' # usados
        => /\ \E p \in Procs : pc[p] \in RecomputeSteps /\ pc'[p] = "idle"
           /\ LedgerExact'
    ]_vars

\* A decision has returned after its recomputation raised the used days.
C27_Witness ==
  /\ result.val = Success
  /\ result.call.op = "process"
  /\ \E i \in EmpIdx : usados[i] > 0


\* ------------------------------------------------------------------------
\* Vocabulary of the properties about an approval
\* ------------------------------------------------------------------------
\* A processed Pending request without review note and without event.
CleanPending(row) ==
  /\ row.estado = PENDIENTE
  /\ row.note = NoNote
  /\ row.eventId = NoEvent
  /\ row.dias # NoDias
  /\ findEmpleado(row.empleado) # 0

\* Exactly one event is added to the calendar in this step, for the row:
\* all-day from the row's first day to the day after its last, and the
\* row's cell holds its reference.
OneEventCreatedFor(rowId) ==
  \E ev \in calendar' \ calendar :
    /\ calendar' = calendar \cup {ev}
    /\ ev.id = solicitudes'[rowId - 1].eventId
    /\ ev.id # NoEvent
    /\ ev.s = normalizeDate_(solicitudes[rowId - 1].ini)
    /\ ev.e = normalizeDate_(solicitudes[rowId - 1].fin) + 24

\* ------------------------------------------------------------------------
\* C28, as claimed: the decision Approved that has passed the roster check
\* and the balance check on a clean Pending request writes the status
\* Approved, creates exactly one all-day event from the first day to the
\* day after the last with its reference stored on the request, and goes on
\* to the recomputation, which returns success with the requester's used
\* days raised by the business days of the request.
\* ------------------------------------------------------------------------
C28_ApprovalEffects ==
  [][ \A p \in Procs :
        LET r == call[p].rowId
        IN /\ ( /\ pc[p] = "process_write"
                /\ pc'[p] # pc[p]
                /\ call[p].action = APROBADO
                /\ r \in DataRows(solicitudes)
                /\ CleanPending(solicitudes[r - 1]) )
              => /\ pc'[p] = "process_recalc"
                 /\ solicitudes'[r - 1].estado = APROBADO
                 /\ OneEventCreatedFor(r)
           /\ ( /\ pc[p] = "process_recalc"
                /\ pc'[p] # pc[p]
                /\ call[p].action = APROBADO
                /\ r \in DataRows(solicitudes)
                /\ solicitudes[r - 1].estado = APROBADO
                /\ findEmpleado(solicitudes[r - 1].empleado) # 0
                /\ UsedDays(solicitudes[r - 1].empleado)
                     = ApprovedDays(solicitudes[r - 1].empleado)
                         - DiasOf(solicitudes[r - 1]) )
              => LET i == findEmpleado(solicitudes[r - 1].empleado)
                     d == DiasOf(solicitudes[r - 1])
                 IN /\ result'.val = Success
                    /\ usados'[i] = usados[i] + d
                    /\ getEmployeeTotals_(usados', Empleados[i].name).remaining
                         = getEmployeeTotals_(usados, Empleados[i].name).remaining - d
    ]_vars


\* ------------------------------------------------------------------------
\* Vocabulary of the properties about Row Processing
\* ------------------------------------------------------------------------
\* p runs Row Processing in this step: at the end of a Create or an Edit.
RowProcessing(p) ==
  /\ pc[p] \in {"create_append", "edit_process"}
  /\ pc'[p] # pc[p]

\* The request Row Processing is run on, and its place in the table.
ProcessedIndex(p) ==
  IF pc[p] = "create_append" THEN Len(solicitudes) + 1 ELSE call[p].rowId - 1
ProcessedRow(p) ==
  IF pc[p] = "create_append"
    THEN newRow(call[p].user, call[p].startDate, call[p].endDate)
    ELSE solicitudes[call[p].rowId - 1]

ValidRow(row) ==
  /\ row.empleado # ""
  /\ row.ini # NoDate
  /\ row.fin # NoDate
  /\ DayOf(row.ini) <= DayOf(row.fin)

TeamOfName(name) ==
  IF \E i \in EmpIdx : Empleados[i].name = name
    THEN Empleados[CHOOSE i \in EmpIdx : Empleados[i].name = name].team
    ELSE ""

\* Another request, active and overlapping the row's days: of a team mate,
\* of the same employee.
TeamOverlapAt(row, idx) ==
  \E j \in (1 .. Len(solicitudes)) \ {idx} :
    /\ solicitudes[j].estado \in ActiveEstados
    /\ solicitudes[j].empleado \notin {"", row.empleado}
    /\ TeamOfName(row.empleado) # ""
    /\ TeamOfName(solicitudes[j].empleado) = TeamOfName(row.empleado)
    /\ Overlaps(solicitudes[j], DayOf(row.ini), DayOf(row.fin))
SelfOverlapAt(row, idx) ==
  \E j \in (1 .. Len(solicitudes)) \ {idx} :
    /\ solicitudes[j].estado \in ActiveEstados
    /\ solicitudes[j].empleado = row.empleado
    /\ Overlaps(solicitudes[j], DayOf(row.ini), DayOf(row.fin))

\* One mail to the first manager of the roster, the others copied.
OneManagerMail(sent) ==
  /\ Len(sent) = 1
  /\ sent[1].to = Managers[1]
  /\ sent[1].cc = Tail(Managers)

\* The request created at time ts is, after the step, in NeedsReview with
\* the duplicate note.
EndsAsDuplicate(ts) ==
  \E j \in 1 .. Len(solicitudes') :
    /\ solicitudes'[j].ts = ts
    /\ solicitudes'[j].estado = NECESITA_REVISION
    /\ solicitudes'[j].note[1] = "Duplicate Request"

\* ------------------------------------------------------------------------
\* C29: Row Processing on a request with valid data sends exactly one
\* manager notification (to the first manager, the others copied) when the
\* request has a team overlap or is clean, and none when the request has no
\* team overlap and overlaps an active request of the same employee; in
\* that case the request ends in NeedsReview with the duplicate note.
\* ------------------------------------------------------------------------
C29_OneManagerNotification ==
  [][ \A p \in Procs :
        LET row == ProcessedRow(p)
            idx == ProcessedIndex(p)
        IN ( RowProcessing(p) /\ ValidRow(row) )
           => IF TeamOverlapAt(row, idx) THEN OneManagerMail(mail')
              ELSE IF SelfOverlapAt(row, idx)
                THEN mail' = NoMail /\ EndsAsDuplicate(row.ts)
              ELSE OneManagerMail(mail')
    ]_vars

\* Row Processing has flagged a request as a duplicate and sent no manager
\* notification.
C29_Witness ==
  /\ result.val = Success
  /\ result.call.op \in {"create", "edit"}
  /\ mail = NoMail
  /\ \E j \in 1 .. Len(solicitudes) :
       /\ solicitudes[j].estado = NECESITA_REVISION
       /\ solicitudes[j].note[1] = "Duplicate Request"


\* ------------------------------------------------------------------------
\* countBusinessDays_ on its own
\* ------------------------------------------------------------------------
\* Day 0 is a Sunday (getDay = 0).
CountedDays == 0 .. MaxDay

\* Each process holds a start and an end date, as parseDateToNoon_ makes
\* them, to call countBusinessDays_ with.
InitDays ==
  /\ solicitudes = << >>
  /\ usados = [ i \in EmpIdx |-> 0 ]
  /\ calendar = {}
  /\ nextEventId = 1
  /\ lock = NoProc
  /\ pc = [ p \in Procs |-> "count_days" ]
  /\ call \in [ Procs -> { [NoCall EXCEPT !.startDate = s, !.endDate = e] :
                             s \in CountedDays, e \in CountedDays } ]
  /\ loc = [ p \in Procs |-> NoLoc ]
  /\ result = NoReturn
  /\ mail = NoMail
  /\ cache = [ k \in RateKeys |-> 0 ]
  /\ passed = [ k \in RateKeys |-> 0 ]
  /\ opsLeft = 0

\* const dias = countBusinessDays_(ini, fin)
CountDays(p) ==
  /\ pc[p] = "count_days"
  /\ pc' = [pc EXCEPT ![p] = "days_counted"]
  /\ loc' = [loc EXCEPT ![p].dias =
               countBusinessDays_(parseDateToNoon_(call[p].startDate),
                                  parseDateToNoon_(call[p].endDate))]
  /\ UNCHANGED << solicitudes, usados, calendar, nextEventId, lock, call,
                  result, mail, cache, passed, opsLeft >>

NextDays == \E p \in Procs : CountDays(p)

SpecDays == InitDays /\ [][NextDays]_vars

\* ------------------------------------------------------------------------
\* C30: countBusinessDays_(start, end) is 0 when end is before start and
\* otherwise the number of days from start to end, both included, that are
\* Monday to Friday: 1 for a single weekday, 0 for a single Saturday or
\* Sunday, 5 for 7 consecutive days; and the count of a range is not less
\* than the count of a range it contains.
\* ------------------------------------------------------------------------
Counted(p) == pc[p] = "days_counted"

C30_CountBusinessDays ==
  /\ \A p \in Procs :
       LET s == call[p].startDate
           e == call[p].endDate
           n == loc[p].dias
       IN Counted(p)
          => /\ e < s => n = 0
             /\ s <= e => n = Weekdays(s, e)
             /\ (s = e /\ s % 7 \in 1 .. 5) => n = 1
             /\ (s = e /\ s % 7 \in {0, 6}) => n = 0
             /\ e = s + 6 => n = 5
  /\ \A p, q \in Procs :
       ( /\ Counted(p) /\ Counted(q)
         /\ call[p].startDate <= call[q].startDate
         /\ call[q].startDate <= call[q].endDate
         /\ call[q].endDate <= call[p].endDate )
       => loc[q].dias <= loc[p].dias

\* Seven days from a Wednesday counted as 5, and the Monday and Tuesday
\* they contain counted as 2.
C30_Witness ==
  /\ Counted(1) /\ Counted(2)
  /\ call[1].startDate = 3 /\ call[1].endDate = 9 /\ loc[1].dias = 5
  /\ call[2].startDate = 8 /\ call[2].endDate = 9 /\ loc[2].dias = 2


\* ------------------------------------------------------------------------
\* Duplicates of one employee
\* ------------------------------------------------------------------------
\* One employee creating and editing requests for today and tomorrow, and
\* the manager approving them, with one invocation more than Spec allows.
NextDuplicate ==
  \E p \in Procs :
    \/ CallCreate(p, {"ana@x"}, Today .. (Today + 1))
    \/ CallEdit(p, {"ana@x"}, Today .. (Today + 1), DataRows(solicitudes))
    \/ CallProcess(p, {"bob@x"}, {APROBADO}, DataRows(solicitudes))
    \/ waitLockTimeout(p)
    \/ CreateValidate(p)
    \/ CreateAppend(p)
    \/ EditWrite(p)
    \/ EditProcess(p)
    \/ ProcessWrite(p)
    \/ ProcessRecalc(p)

SpecDuplicate == InitRace /\ [][NextDuplicate]_vars

\* The days of the closed range of the row; none when it ends before it
\* starts.
RangeOf(row) == DayOf(row.ini) .. DayOf(row.fin)

\* ------------------------------------------------------------------------
\* C31, as claimed, in the states where no operation is in progress: no
\* employee has two distinct requests, each Pending, Approved or
\* ApprovedException, whose closed date ranges have a day in common.
\* ------------------------------------------------------------------------
C31_NoOverlappingActiveRequests ==
  Quiescent =>
    \A i, j \in 1 .. Len(solicitudes) :
      ( /\ i # j
        /\ solicitudes[i].empleado # ""
        /\ solicitudes[i].empleado = solicitudes[j].empleado
        /\ solicitudes[i].estado \in ActiveEstados
        /\ solicitudes[j].estado \in ActiveEstados )
      => RangeOf(solicitudes[i]) \cap RangeOf(solicitudes[j]) = {}


\* ------------------------------------------------------------------------
\* C32, as claimed: with balance enforcement enabled and the only decision
\* issued being Approved, whenever no operation is in progress every
\* employee's used days are at most the employee's allowance.
\* ------------------------------------------------------------------------
C32_UsedDaysWithinAllowance ==
  ( ENFORCE_BALANCE_BEFORE_EVENT /\ Quiescent )
  => \A i \in EmpIdx : usados[i] <= Empleados[i].saldoHR


\* ------------------------------------------------------------------------
\* apiProcessRequest, the calendar calls of handleEstadoChange_ apart from
\* its reads of the sheet
\* ------------------------------------------------------------------------
\* Lines 389 and 758-765: the status is written, getCalendar_ returns or
\* throws, and the cells of the row are read, the event reference among
\* them.
ProcessRead(p) ==
  /\ pc[p] = "process_write"
  /\ \E calOk \in BOOLEAN :
       LET rowId == call[p].rowId
           sol1 == [withRow(solicitudes, rowId) EXCEPT
                      ![rowId - 1].estado = call[p].action]
       IN /\ solicitudes' = sol1
          /\ IF calOk
               THEN /\ Goto(p, call[p], "process_event")
                    /\ loc' = [loc EXCEPT ![p].read = sol1[rowId - 1]]
               ELSE Return(p, call[p], << "Calendar error", "" >>)
  /\ UNCHANGED << usados, calendar, nextEventId, lock, opsLeft >>

\* Lines 768-793 with the cells read before: the sheet and the calendar
\* they leave, and whether a calendar call throws out of them.
eventChange(read, sol, cal, nextId, rowId, calOk) ==
  LET eventId == read.eventId
      live == eventId # NoEvent /\ \E ev \in cal : ev.id = eventId
      same == [sol |-> sol, cal |-> cal, nextId |-> nextId, threw |-> FALSE]
  IN IF includesAprobado(read.estado)
       THEN IF ~calOk
              THEN [same EXCEPT !.threw = TRUE]
            ELSE IF live
              THEN [same EXCEPT !.cal = { ev \in cal : ev.id # eventId }
                                        \cup { eventFor(eventId, read) }]
            ELSE [sol |-> [sol EXCEPT ![rowId - 1].eventId = nextId],
                  cal |-> cal \cup { eventFor(nextId, read) },
                  nextId |-> nextId + 1, threw |-> FALSE]
     ELSE IF eventId # NoEvent /\ calOk
       THEN [same EXCEPT !.sol = [sol EXCEPT ![rowId - 1].eventId = NoEvent],
                         !.cal = { ev \in cal : ev.id # eventId }]
     ELSE same

\* Lines 768-793: getEventById, then the event updated, or created with its
\* reference written to column 8, or deleted with the reference cleared.
ProcessEvent(p) ==
  /\ pc[p] = "process_event"
  /\ \E calOk \in BOOLEAN :
       LET done == eventChange(loc[p].read, solicitudes, calendar,
                               nextEventId, call[p].rowId, calOk)
       IN /\ solicitudes' = done.sol
          /\ calendar' = done.cal
          /\ nextEventId' = done.nextId
          /\ IF done.threw
               THEN Return(p, call[p], << "Calendar error", "" >>)
               ELSE /\ Goto(p, call[p], "process_recalc")
                    /\ UNCHANGED loc
  /\ UNCHANGED << usados, lock, opsLeft >>

\* One employee creating requests for today and the manager's decisions on
\* them, approvals and rejections, run concurrently.
NextEvents ==
  \E p \in Procs :
    \/ CallCreate(p, {"ana@x"}, {Today})
    \/ CallProcess(p, {"bob@x"}, Decisions, DataRows(solicitudes))
    \/ waitLockTimeout(p)
    \/ CreateValidate(p)
    \/ CreateAppend(p)
    \/ ProcessRead(p)
    \/ ProcessEvent(p)
    \/ ProcessRecalc(p)

SpecEvents == Init /\ [][NextEvents]_vars

\* ------------------------------------------------------------------------
\* C33, as claimed: in every state, every event of the calendar is
\* referenced by exactly one request, and no request's reference designates
\* more than one event.
\* ------------------------------------------------------------------------
C33_OneEventPerRequest ==
  /\ \A ev \in calendar :
       Cardinality({ i \in 1 .. Len(solicitudes) :
                       solicitudes[i].eventId = ev.id }) = 1
  /\ \A i \in 1 .. Len(solicitudes) :
       Cardinality({ ev \in calendar : ev.id = solicitudes[i].eventId }) <= 1

====
